---- MODULE Spec2Model ----
(***************************************************************************)
(* A model of the asprim crate (src/lib.rs): the trait AsPrim, its         *)
(* implementations generated by as_prim_impl! for the fourteen primitive   *)
(* numeric types, the provided method as_ and the documented function      *)
(* mean.                                                                   *)
(*                                                                         *)
(* Every method body is a cast `self as T`.  The cast is modelled by what  *)
(* it does on the representation of the value:                             *)
(*   - an integer of width w is a sequence of w bits, least significant    *)
(*     bit first, in two's complement when the type is signed;             *)
(*   - a float is NaN, an infinity, a signed zero, or a finite value       *)
(*     (-1)^neg * man * 2^exp whose significand man is an odd natural      *)
(*     number of at most 24 (f32) or 53 (f64) bits.  All NaNs are one      *)
(*     value: payloads and the sign of a NaN are not modelled.             *)
(* Natural numbers of any size are sequences of bits, least significant    *)
(* bit first, with no zero bit at the high end (zero is the empty          *)
(* sequence), so that 64-bit and 128-bit values are computed exactly.      *)
(***************************************************************************)
EXTENDS Integers, Sequences, FiniteSets

VARIABLES ptrBits, self, data, op, T, result, back, pc

vars == <<ptrBits, self, data, op, T, result, back, pc>>

(***************************************************************************)
(* Natural numbers as bit sequences.                                       *)
(***************************************************************************)
Max2(a, b) == IF a >= b THEN a ELSE b

Zeros(k) == [i \in 1..k |-> 0]

Ones(k) == [i \in 1..k |-> 1]

\* the position of the highest 1 bit of s, 0 when there is none
Top(s) ==
    IF \A i \in 1..Len(s) : s[i] = 0 THEN 0
    ELSE CHOOSE i \in 1..Len(s) :
             s[i] = 1 /\ \A j \in (i + 1)..Len(s) : s[j] = 0

NTrim(s) == SubSeq(s, 1, Top(s))

NFromInt(n) == NTrim([i \in 1..31 |-> (n \div 2^(i - 1)) % 2])

NBit(a, i) == IF i >= 1 /\ i <= Len(a) THEN a[i] ELSE 0

NPow2(k) == Zeros(k) \o <<1>>

NShl(a, k) == IF Len(a) = 0 THEN <<>> ELSE Zeros(k) \o a

NShr(a, k) == IF k >= Len(a) THEN <<>> ELSE SubSeq(a, k + 1, Len(a))

\* the carry into position i of a + b: some lower position generates a
\* carry and every position between passes it on
Carry(a, b, i) ==
    \E j \in 1..(i - 1) :
        /\ NBit(a, j) + NBit(b, j) = 2
        /\ \A k \in (j + 1)..(i - 1) : NBit(a, k) + NBit(b, k) >= 1

NAdd(a, b) ==
    NTrim([i \in 1..(Max2(Len(a), Len(b)) + 1) |->
              (NBit(a, i) + NBit(b, i) + IF Carry(a, b, i) THEN 1 ELSE 0) % 2])

\* the borrow into position i of a - b
Borrow(a, b, i) ==
    \E j \in 1..(i - 1) :
        /\ NBit(a, j) < NBit(b, j)
        /\ \A k \in (j + 1)..(i - 1) : NBit(a, k) <= NBit(b, k)

\* a - b for a >= b
NSub(a, b) ==
    NTrim([i \in 1..Len(a) |->
              (NBit(a, i) - NBit(b, i) - IF Borrow(a, b, i) THEN 1 ELSE 0) % 2])

\* a < b, for trimmed a and b
NLess(a, b) ==
    IF Len(a) # Len(b) THEN Len(a) < Len(b)
    ELSE \E i \in 1..Len(a) :
             a[i] < b[i] /\ \A j \in (i + 1)..Len(a) : a[j] = b[j]

NLeq(a, b) == ~NLess(b, a)

\* the number of zero bits at the low end of a nonzero a
NLowZeros(a) ==
    (CHOOSE i \in 1..Len(a) : a[i] = 1 /\ \A j \in 1..(i - 1) : a[j] = 0) - 1

\* F(v), with v evaluated once, before F is applied to it
Let(v, F(_)) == CHOOSE r \in {F(x) : x \in {v}} : TRUE

\* one step of the long division of a by b # 0, for the bit of a at position
\* i; st = [q |-> quotient so far, r |-> remainder so far]
NDivStep(a, b, i, st) ==
    LET r2 == NTrim(<<a[i]>> \o st.r)
    IN  IF NLeq(b, r2)
        THEN [q |-> <<1>> \o st.q, r |-> NSub(r2, b)]
        ELSE [q |-> <<0>> \o st.q, r |-> r2]

\* the steps for the bits of a from position i down to position lo
RECURSIVE NDivBits(_, _, _, _, _)
NDivBits(a, b, i, lo, st) ==
    IF i < lo THEN st
    ELSE Let(NDivStep(a, b, i, st), LAMBDA s : NDivBits(a, b, i - 1, lo, s))

\* the same, sixteen bits of a at a time
RECURSIVE NDivBlocks(_, _, _, _)
NDivBlocks(a, b, i, st) ==
    IF i = 0 THEN st
    ELSE Let(NDivBits(a, b, i, Max2(1, i - 15), st),
             LAMBDA s : NDivBlocks(a, b, Max2(1, i - 15) - 1, s))

\* [q |-> a div b, r |-> a mod b]
NDivMod(a, b) ==
    Let(NDivBlocks(a, b, Len(a), [q |-> <<>>, r |-> <<>>]),
        LAMBDA st : [q |-> NTrim(st.q), r |-> st.r])

(***************************************************************************)
(* The primitive numeric types and their values.                           *)
(***************************************************************************)
UnsignedTypes == {"u8", "u16", "u32", "u64", "u128", "usize"}

SignedTypes == {"i8", "i16", "i32", "i64", "i128", "isize"}

IntTypes == UnsignedTypes \cup SignedTypes

FloatTypes == {"f32", "f64"}

\* usize and isize have the width of a pointer of the target
PointerWidths == {16, 32, 64}

IsSigned(ty) == ty \in SignedTypes

IsInt(ty) == ty \in IntTypes

Width(ty) ==
    CASE ty \in {"u8", "i8"} -> 8
      [] ty \in {"u16", "i16"} -> 16
      [] ty \in {"u32", "i32"} -> 32
      [] ty \in {"u64", "i64"} -> 64
      [] ty \in {"u128", "i128"} -> 128
      [] ty \in {"usize", "isize"} -> ptrBits

\* bits of the significand, with the implicit leading bit
Prec(ty) == IF ty = "f32" THEN 24 ELSE 53

\* the largest and the smallest exponent of a normal value
EMax(ty) == IF ty = "f32" THEN 127 ELSE 1023

EMin(ty) == 1 - EMax(ty)

\* the low w bits of a, padded with zeros
Pad(a, w) == [i \in 1..w |-> NBit(a, i)]

\* the two's complement of a bit pattern: the bits above the lowest 1 flip
Neg2c(bits) ==
    IF \A i \in 1..Len(bits) : bits[i] = 0 THEN bits
    ELSE LET z == NLowZeros(bits) + 1
         IN  [i \in 1..Len(bits) |-> IF i <= z THEN bits[i] ELSE 1 - bits[i]]

\* the integer (-1)^neg * mag of type ty, for mag <= 2^Width(ty)
IntOf(ty, neg, mag) ==
    LET w == Width(ty)
    IN  [ty |-> ty,
         bits |-> IF neg THEN Neg2c(Pad(mag, w)) ELSE Pad(mag, w)]

\* the number an integer value stands for, as sign and magnitude
IntVal(x) ==
    LET w == Len(x.bits)
    IN  IF IsSigned(x.ty) /\ x.bits[w] = 1
        THEN [neg |-> TRUE, mag |-> NTrim(Neg2c(x.bits))]
        ELSE [neg |-> FALSE, mag |-> NTrim(x.bits)]

MaxMag(ty) == IF IsSigned(ty) THEN Ones(Width(ty) - 1) ELSE Ones(Width(ty))

MinMag(ty) == IF IsSigned(ty) THEN NPow2(Width(ty) - 1) ELSE <<>>

NaN(ty) == [ty |-> ty, cls |-> "nan", neg |-> FALSE, man |-> <<>>, exp |-> 0]

Inf(ty, neg) == [ty |-> ty, cls |-> "inf", neg |-> neg, man |-> <<>>, exp |-> 0]

Zero(ty, neg) == [ty |-> ty, cls |-> "zero", neg |-> neg, man |-> <<>>, exp |-> 0]

Fin(ty, neg, man, exp) ==
    [ty |-> ty, cls |-> "fin", neg |-> neg, man |-> man, exp |-> exp]

(***************************************************************************)
(* The cast operator `as` (lines 61-87: every method body is self as T).   *)
(***************************************************************************)
\* a faulty integer cast that zero-extends a signed source
IntToIntZeroExtend(x, ty) ==
    [ty |-> ty,
     bits |-> [i \in 1..Width(ty) |-> IF i <= Len(x.bits) THEN x.bits[i] ELSE 0]]

\* integer to integer: same width keeps the bits, a smaller target truncates,
\* a larger one zero-extends an unsigned source and sign-extends a signed one
IntToInt(x, ty) ==
    LET n == Len(x.bits)
        ext == IF IsSigned(x.ty) THEN x.bits[n] ELSE 0
    IN  [ty |-> ty,
         bits |-> [i \in 1..Width(ty) |-> IF i <= n THEN x.bits[i] ELSE ext]]

\* a faulty packing that never overflows to infinity
PackUnbounded(ty, neg, k, q) ==
    IF Len(k) = 0 THEN Zero(ty, neg)
    ELSE Fin(ty, neg, NShr(k, NLowZeros(k)), q + NLowZeros(k))

\* the float k * 2^q of type ty, k of at most Prec(ty) + 1 bits: the
\* significand made odd; infinity when the exponent is above EMax
Pack(ty, neg, k, q) ==
    IF Len(k) = 0 THEN Zero(ty, neg)
    ELSE LET z == NLowZeros(k)
             man == NShr(k, z)
         IN  IF q + z + Len(man) - 1 > EMax(ty) THEN Inf(ty, neg)
             ELSE Fin(ty, neg, man, q + z)

\* a faulty rounding that keeps one bit fewer than the significand holds
RoundToFloatShort(ty, neg, m, e, sticky) ==
    LET p == Prec(ty) - 1
        q == Max2(e + Len(m) - 1, EMin(ty)) - p + 1
        sh == q - e
        keep == IF sh <= 0 THEN NShl(m, -sh) ELSE NShr(m, sh)
        rnd == IF sh <= 0 THEN 0 ELSE NBit(m, sh)
        low == sticky \/ (\E i \in 1..(sh - 1) : NBit(m, i) = 1)
        up == rnd = 1 /\ (low \/ NBit(keep, 1) = 1)
    IN  Pack(ty, neg, IF up THEN NAdd(keep, <<1>>) ELSE keep, q)

\* m * 2^e (plus, when sticky, a positive amount below 2^e; then m has more
\* than Prec(ty) bits) rounded to the nearest value of ty, ties to even
RoundToFloat(ty, neg, m, e, sticky) ==
    LET p == Prec(ty)
        q == Max2(e + Len(m) - 1, EMin(ty)) - p + 1
        sh == q - e
        keep == IF sh <= 0 THEN NShl(m, -sh) ELSE NShr(m, sh)
        rnd == IF sh <= 0 THEN 0 ELSE NBit(m, sh)
        low == sticky \/ (\E i \in 1..(sh - 1) : NBit(m, i) = 1)
        up == rnd = 1 /\ (low \/ NBit(keep, 1) = 1)
    IN  Pack(ty, neg, IF up THEN NAdd(keep, <<1>>) ELSE keep, q)

\* a faulty integer to float cast that reads every source as unsigned
IntToFloatUnsigned(x, ty) ==
    IF Len(NTrim(x.bits)) = 0 THEN Zero(ty, FALSE)
    ELSE RoundToFloat(ty, FALSE, NTrim(x.bits), 0, FALSE)

\* integer to float: the nearest value, ties to even
IntToFloat(x, ty) ==
    LET v == IntVal(x)
    IN  IF Len(v.mag) = 0 THEN Zero(ty, FALSE)
        ELSE RoundToFloat(ty, v.neg, v.mag, 0, FALSE)

\* a faulty float to integer cast that wraps modulo 2^w and does not saturate
FloatToIntWrapping(x, ty) ==
    LET t == IF x.exp >= 0 THEN NShl(x.man, x.exp) ELSE NShr(x.man, -x.exp)
    IN  IF x.cls = "fin" THEN IntOf(ty, x.neg, t) ELSE IntOf(ty, FALSE, <<>>)

\* a faulty float to integer cast that sends NaN to T::MAX
FloatToIntNaNMax(x, ty) ==
    LET lim == IF x.neg THEN MinMag(ty) ELSE MaxMag(ty)
        huge == x.exp + Len(x.man) > Width(ty)
        t == IF x.exp >= 0 THEN NShl(x.man, x.exp) ELSE NShr(x.man, -x.exp)
    IN  CASE x.cls = "nan" -> IntOf(ty, FALSE, MaxMag(ty))
          [] x.cls = "zero" -> IntOf(ty, FALSE, <<>>)
          [] x.cls = "inf" -> IntOf(ty, x.neg, lim)
          [] x.cls = "fin" ->
                IF huge \/ NLess(lim, t) THEN IntOf(ty, x.neg, lim)
                ELSE IntOf(ty, x.neg, t)

\* float to integer: toward zero, saturating; NaN is 0
FloatToInt(x, ty) ==
    LET lim == IF x.neg THEN MinMag(ty) ELSE MaxMag(ty)
        huge == x.exp + Len(x.man) > Width(ty)
        t == IF x.exp >= 0 THEN NShl(x.man, x.exp) ELSE NShr(x.man, -x.exp)
    IN  CASE x.cls = "nan" -> IntOf(ty, FALSE, <<>>)
          [] x.cls = "zero" -> IntOf(ty, FALSE, <<>>)
          [] x.cls = "inf" -> IntOf(ty, x.neg, lim)
          [] x.cls = "fin" ->
                IF huge \/ NLess(lim, t) THEN IntOf(ty, x.neg, lim)
                ELSE IntOf(ty, x.neg, t)

\* float to float: the nearest value, ties to even
FloatToFloat(x, ty) ==
    CASE x.cls = "nan" -> NaN(ty)
      [] x.cls = "inf" -> Inf(ty, x.neg)
      [] x.cls = "zero" -> Zero(ty, x.neg)
      [] x.cls = "fin" -> RoundToFloat(ty, x.neg, x.man, x.exp, FALSE)

As(x, ty) ==
    IF IsInt(x.ty)
    THEN (IF IsInt(ty) THEN IntToInt(x, ty) ELSE IntToFloat(x, ty))
    ELSE (IF IsInt(ty) THEN FloatToInt(x, ty) ELSE FloatToFloat(x, ty))

(***************************************************************************)
(* 64-bit float arithmetic of the documented function mean (lines 16-20).  *)
(***************************************************************************)
\* a + b, both of type ty
FAdd(a, b) ==
    LET ty == a.ty
        e0 == IF a.exp <= b.exp THEN a.exp ELSE b.exp
        ma == NShl(a.man, a.exp - e0)
        mb == NShl(b.man, b.exp - e0)
    IN  CASE a.cls = "nan" \/ b.cls = "nan" -> NaN(ty)
          [] a.cls = "inf" /\ b.cls = "inf" ->
                IF a.neg = b.neg THEN a ELSE NaN(ty)
          [] a.cls = "inf" /\ b.cls \in {"zero", "fin"} -> a
          [] a.cls \in {"zero", "fin"} /\ b.cls = "inf" -> b
          [] a.cls = "zero" /\ b.cls = "zero" -> Zero(ty, a.neg /\ b.neg)
          [] a.cls = "zero" /\ b.cls = "fin" -> b
          [] a.cls = "fin" /\ b.cls = "zero" -> a
          [] a.cls = "fin" /\ b.cls = "fin" ->
                IF a.neg = b.neg
                THEN RoundToFloat(ty, a.neg, NAdd(ma, mb), e0, FALSE)
                ELSE IF ma = mb THEN Zero(ty, FALSE)
                ELSE IF NLess(mb, ma)
                THEN RoundToFloat(ty, a.neg, NSub(ma, mb), e0, FALSE)
                ELSE RoundToFloat(ty, b.neg, NSub(mb, ma), e0, FALSE)

\* a / b, both of type ty
FDiv(a, b) ==
    LET ty == a.ty
        neg == a.neg # b.neg
        k == Max2(0, Prec(ty) + 2 + Len(b.man) - Len(a.man))
        d == NDivMod(NShl(a.man, k), b.man)
    IN  CASE a.cls = "nan" \/ b.cls = "nan" -> NaN(ty)
          [] a.cls = "inf" /\ b.cls = "inf" -> NaN(ty)
          [] a.cls = "zero" /\ b.cls = "zero" -> NaN(ty)
          [] a.cls = "inf" /\ b.cls \in {"zero", "fin"} -> Inf(ty, neg)
          [] a.cls \in {"zero", "fin"} /\ b.cls = "inf" -> Zero(ty, neg)
          [] a.cls = "zero" /\ b.cls = "fin" -> Zero(ty, neg)
          [] a.cls = "fin" /\ b.cls = "zero" -> Inf(ty, neg)
          [] a.cls = "fin" /\ b.cls = "fin" ->
                RoundToFloat(ty, neg, d.q, a.exp - b.exp - k, Len(d.r) > 0)

(***************************************************************************)
(* trait AsPrim (lines 33-54) and its implementations (lines 56-99).       *)
(***************************************************************************)
\* a faulty trait without the 128-bit targets
MethodsWithout128 ==
    [as_usize |-> "usize", as_isize |-> "isize",
     as_u64 |-> "u64", as_i64 |-> "i64",
     as_u32 |-> "u32", as_i32 |-> "i32",
     as_u16 |-> "u16", as_i16 |-> "i16",
     as_u8 |-> "u8", as_i8 |-> "i8",
     as_f32 |-> "f32", as_f64 |-> "f64"]

\* the required conversion methods of the trait, with their return types
Methods ==
    [as_usize |-> "usize", as_isize |-> "isize",
     as_u128 |-> "u128", as_i128 |-> "i128",
     as_u64 |-> "u64", as_i64 |-> "i64",
     as_u32 |-> "u32", as_i32 |-> "i32",
     as_u16 |-> "u16", as_i16 |-> "i16",
     as_u8 |-> "u8", as_i8 |-> "i8",
     as_f32 |-> "f32", as_f64 |-> "f64"]

\* the rows `$method $from` of the invocation of as_prim_impl!
ImplTable ==
    << [method |-> "as_u8", from |-> "u8"], [method |-> "as_i8", from |-> "i8"],
       [method |-> "as_u16", from |-> "u16"], [method |-> "as_i16", from |-> "i16"],
       [method |-> "as_u32", from |-> "u32"], [method |-> "as_i32", from |-> "i32"],
       [method |-> "as_u128", from |-> "u128"], [method |-> "as_i128", from |-> "i128"],
       [method |-> "as_u64", from |-> "u64"], [method |-> "as_i64", from |-> "i64"],
       [method |-> "as_usize", from |-> "usize"], [method |-> "as_isize", from |-> "isize"],
       [method |-> "as_f32", from |-> "f32"], [method |-> "as_f64", from |-> "f64"] >>

\* the types that implement AsPrim
Implementors == {ImplTable[i].from : i \in 1..Len(ImplTable)}

as_usize(x) == As(x, "usize")

as_isize(x) == As(x, "isize")

as_u128(x) == As(x, "u128")

as_i128(x) == As(x, "i128")

as_u64(x) == As(x, "u64")

as_i64(x) == As(x, "i64")

as_u32(x) == As(x, "u32")

as_i32(x) == As(x, "i32")

as_u16(x) == As(x, "u16")

as_i16(x) == As(x, "i16")

as_u8(x) == As(x, "u8")

as_i8(x) == As(x, "i8")

as_f32(x) == As(x, "f32")

\* a faulty as_f64 whose body casts through f32
as_f64_through_f32(x) == As(As(x, "f32"), "f64")

as_f64(x) == As(x, "f64")

\* x.m() for the method named m
Call(m, x) ==
    CASE m = "as_usize" -> as_usize(x)
      [] m = "as_isize" -> as_isize(x)
      [] m = "as_u128" -> as_u128(x)
      [] m = "as_i128" -> as_i128(x)
      [] m = "as_u64" -> as_u64(x)
      [] m = "as_i64" -> as_i64(x)
      [] m = "as_u32" -> as_u32(x)
      [] m = "as_i32" -> as_i32(x)
      [] m = "as_u16" -> as_u16(x)
      [] m = "as_i16" -> as_i16(x)
      [] m = "as_u8" -> as_u8(x)
      [] m = "as_i8" -> as_i8(x)
      [] m = "as_f32" -> as_f32(x)
      [] m = "as_f64" -> as_f64(x)

\* a faulty cast_from that goes through f64 whatever the target
cast_from_through_f64(ty, x) == As(As(x, "f64"), ty)

\* <ty as AsPrim>::cast_from(x) is x.$method() of the row of ty
cast_from(ty, x) ==
    LET row == CHOOSE i \in 1..Len(ImplTable) : ImplTable[i].from = ty
    IN  Call(ImplTable[row].method, x)

\* x.as_::<ty>()
as_(x, ty) == cast_from(ty, x)

\* the loop `for elt in data { sum += elt.as_f64(); }` from element i on
RECURSIVE SumFrom(_, _, _)
SumFrom(elems, i, sum) ==
    IF i > Len(elems) THEN sum
    ELSE Let(FAdd(sum, as_f64(elems[i])), LAMBDA s : SumFrom(elems, i + 1, s))

\* a faulty mean that accumulates and divides in f32
RECURSIVE SumFromF32(_, _, _)
SumFromF32(elems, i, sum) ==
    IF i > Len(elems) THEN sum
    ELSE Let(FAdd(sum, As(elems[i], "f32")),
             LAMBDA s : SumFromF32(elems, i + 1, s))

meanF32(P, elems) ==
    LET len == IntOf("usize", FALSE, NFromInt(Len(elems)))
    IN  Let(SumFromF32(elems, 1, Zero("f32", FALSE)),
            LAMBDA sum : Let(FDiv(sum, As(len, "f32")), LAMBDA q : As(q, P)))

\* mean::<P>(data)
mean(P, elems) ==
    LET len == IntOf("usize", FALSE, NFromInt(Len(elems)))
    IN  Let(SumFrom(elems, 1, Zero("f64", FALSE)),
            LAMBDA sum : Let(FDiv(sum, As(len, "f64")), LAMBDA q : as_(q, P)))

(***************************************************************************)
(* The inputs of the operations.                                           *)
(***************************************************************************)
\* the longest slice given to mean
MaxLen == 3

Nil == [ty |-> "none"]

\* exponents k of the integer inputs 2^k - 1, 2^k, 2^k + 1 and their
\* bitwise complements -2^k, -2^k - 1, -2^k - 2
SampleExps == {0, 7, 8, 15, 16, 24, 31, 32, 53, 63, 64, 127, 128}

\* w bits of 2^k - 1 ("ones"), 2^k ("one") and 2^k + 1 ("two")
Pattern(kind, k, w) ==
    [i \in 1..w |->
        CASE kind = "ones" -> IF i <= k THEN 1 ELSE 0
          [] kind = "one" -> IF i = k + 1 THEN 1 ELSE 0
          [] kind = "two" -> IF i = k + 1 \/ i = 1 THEN 1 ELSE 0]

Flip(bits) == [i \in 1..Len(bits) |-> 1 - bits[i]]

IntSamples(ty) ==
    LET w == Width(ty)
        ks == {k \in SampleExps : k <= w}
        ps == {Pattern(kind, k, w) : kind \in {"ones", "one", "two"}, k \in ks}
               \cup (IF w >= 16 THEN {Pad(NFromInt(300), w)} ELSE {})
    IN  {[ty |-> ty, bits |-> b] : b \in ps \cup {Flip(b) : b \in ps}}

\* finite floats: significands 1, 3, 2^24 + 1 and 2^p - 1 at exponents that
\* give fractions, values at the bounds of the integer types, the largest
\* finite value and subnormal values
FloatSamples(ty) ==
    LET p == Prec(ty)
        low == EMin(ty) - p + 1
        fins == {Fin(ty, FALSE, <<1>>, e) :
                    e \in {low, EMin(ty), -1, 0, 7, 8, 31, 32, 63, 64, 127}}
                \cup {Fin(ty, FALSE, <<1, 1>>, e) : e \in {low, -2, -1, 6, 126}}
                \cup {Fin(ty, FALSE, Ones(p), e) : e \in {low, -1, 0, 1, EMax(ty) - p + 1}}
                \cup {Fin(ty, FALSE, Ones(9), -1), Fin(ty, FALSE, Ones(8), -3)}
                \cup (IF ty = "f64"
                      THEN {Fin(ty, FALSE, Pattern("two", 24, 25), e) : e \in {0, -174}}
                           \cup {Fin(ty, FALSE, Ones(25), e) : e \in {0, 103}}
                           \cup {Fin(ty, FALSE, <<1>>, e) : e \in {-150, 128}}
                           \cup {Fin(ty, FALSE, <<1, 1>>, -150)}
                      ELSE {})
    IN  {NaN(ty)} \cup {Inf(ty, n) : n \in BOOLEAN} \cup {Zero(ty, n) : n \in BOOLEAN}
        \cup {[f EXCEPT !.neg = n] : f \in fins, n \in BOOLEAN}

Samples(ty) == IF IsInt(ty) THEN IntSamples(ty) ELSE FloatSamples(ty)

\* the element types and the elements of the slices given to mean
MeanTypes == {"u8", "i32", "i64"}

MeanElems(P) ==
    LET w == Width(P)
        pos == CASE P = "u8" -> {Pattern("one", 0, w), Pattern("ones", 8, w)}
                 [] P = "i32" -> {Pattern("one", 0, w), Pattern("one", 1, w),
                                  Pattern("two", 1, w), Pattern("ones", 31, w)}
                 [] P = "i64" -> {Pattern("one", 0, w), Pattern("two", 53, w),
                                  Pattern("ones", 63, w)}
        negs == IF P = "u8" THEN {} ELSE {Pattern("ones", w, w)}
    IN  {[ty |-> P, bits |-> b] : b \in pos \cup negs}

Slices(P) ==
    {[P |-> P, elems |-> e] :
        e \in UNION {[1..n -> MeanElems(P)] : n \in 0..MaxLen}}

(***************************************************************************)
(* The state machine: a value or a slice is given, one operation is        *)
(* applied to it, and a conversion may be converted back to the type it    *)
(* came from.                                                              *)
(***************************************************************************)
Init ==
    /\ ptrBits \in PointerWidths
    /\ \/ /\ self \in UNION {Samples(ty) : ty \in Implementors}
          /\ data = Nil
       \/ /\ self = Nil
          /\ data \in UNION {Slices(P) : P \in MeanTypes}
    /\ op = "none"
    /\ T = "none"
    /\ result = Nil
    /\ back = Nil
    /\ pc = "ready"

\* the effect of self.m(), m a conversion method of the trait
Invoke(m) ==
    /\ result' = Call(m, self)
    /\ op' = m
    /\ T' = Methods[m]
    /\ pc' = "done"
    /\ UNCHANGED <<ptrBits, self, data, back>>

Call_as_usize == pc = "ready" /\ self # Nil /\ Invoke("as_usize")

Call_as_isize == pc = "ready" /\ self # Nil /\ Invoke("as_isize")

Call_as_u128 == pc = "ready" /\ self # Nil /\ Invoke("as_u128")

Call_as_i128 == pc = "ready" /\ self # Nil /\ Invoke("as_i128")

Call_as_u64 == pc = "ready" /\ self # Nil /\ Invoke("as_u64")

Call_as_i64 == pc = "ready" /\ self # Nil /\ Invoke("as_i64")

Call_as_u32 == pc = "ready" /\ self # Nil /\ Invoke("as_u32")

Call_as_i32 == pc = "ready" /\ self # Nil /\ Invoke("as_i32")

Call_as_u16 == pc = "ready" /\ self # Nil /\ Invoke("as_u16")

Call_as_i16 == pc = "ready" /\ self # Nil /\ Invoke("as_i16")

Call_as_u8 == pc = "ready" /\ self # Nil /\ Invoke("as_u8")

Call_as_i8 == pc = "ready" /\ self # Nil /\ Invoke("as_i8")

Call_as_f32 == pc = "ready" /\ self # Nil /\ Invoke("as_f32")

Call_as_f64 == pc = "ready" /\ self # Nil /\ Invoke("as_f64")

\* self.as_::<ty>()
Call_as_ ==
    /\ pc = "ready"
    /\ self # Nil
    /\ \E ty \in Implementors :
          /\ result' = as_(self, ty)
          /\ T' = ty
    /\ op' = "as_"
    /\ pc' = "done"
    /\ UNCHANGED <<ptrBits, self, data, back>>

\* the result converted back to the type of self, the way it was converted
Call_back ==
    /\ pc = "done"
    /\ op # "mean"
    /\ back' = IF op = "as_" THEN as_(result, self.ty)
               ELSE Call(CHOOSE m \in DOMAIN Methods : Methods[m] = self.ty, result)
    /\ pc' = "back"
    /\ UNCHANGED <<ptrBits, self, data, op, T, result>>

\* mean(&data)
Call_mean ==
    /\ pc = "ready"
    /\ data # Nil
    /\ result' = mean(data.P, data.elems)
    /\ op' = "mean"
    /\ T' = data.P
    /\ pc' = "done"
    /\ UNCHANGED <<ptrBits, self, data, back>>

Next ==
    \/ Call_as_usize \/ Call_as_isize \/ Call_as_u128 \/ Call_as_i128
    \/ Call_as_u64 \/ Call_as_i64 \/ Call_as_u32 \/ Call_as_i32
    \/ Call_as_u16 \/ Call_as_i16 \/ Call_as_u8 \/ Call_as_i8
    \/ Call_as_f32 \/ Call_as_f64
    \/ Call_as_ \/ Call_back \/ Call_mean

Spec == Init /\ [][Next]_vars

(***************************************************************************)
(* Properties.                                                             *)
(***************************************************************************)
\* a conversion (not mean) has been applied to self
Converted == pc \in {"done", "back"} /\ op # "mean"

\* v is a well-formed value of type ty
IsValue(v, ty) ==
    /\ v.ty = ty
    /\ IF IsInt(ty)
       THEN /\ DOMAIN v = {"ty", "bits"}
            /\ Len(v.bits) = Width(ty)
            /\ \A i \in 1..Len(v.bits) : v.bits[i] \in {0, 1}
       ELSE /\ DOMAIN v = {"ty", "cls", "neg", "man", "exp"}
            /\ v.cls \in {"nan", "inf", "zero", "fin"}
            /\ v.neg \in BOOLEAN
            /\ v.cls = "nan" => ~v.neg
            /\ v.cls # "fin" => Len(v.man) = 0 /\ v.exp = 0
            /\ v.cls = "fin" =>
                  /\ Len(v.man) >= 1 /\ Len(v.man) <= Prec(ty)
                  /\ \A i \in 1..Len(v.man) : v.man[i] \in {0, 1}
                  /\ v.man[1] = 1 /\ v.man[Len(v.man)] = 1
                  /\ v.exp >= EMin(ty) - Prec(ty) + 1
                  /\ v.exp + Len(v.man) - 1 <= EMax(ty)

\* the method the trait names for the target type ty
MethodNamed(ty) == "as_" \o ty

\* C1: x.as_::<T>() returns what the method named for T, x.as_T(), returns,
\* for every source value and every target; every row of the macro table
\* pairs a type with the method named for it, and all 14 types have a row.
C1_DispatchIsNamedMethod ==
    /\ \A i \in 1..Len(ImplTable) :
          ImplTable[i].method = MethodNamed(ImplTable[i].from)
    /\ Len(ImplTable) = 14
    /\ Converted /\ op = "as_" =>
          /\ result = Call(MethodNamed(T), self)
          /\ Methods[MethodNamed(T)] = T

C1_Witness ==
    /\ pc = "done" /\ op = "as_"
    /\ self.ty = "i128" /\ T = "f32"
    /\ result = as_f32(self)

\* C2: every conversion, by a method or by as_, of every value to every type
\* yields a well-formed value of the target type (and so does the conversion
\* back).
C2_Total ==
    /\ Converted => IsValue(result, T)
    /\ pc = "back" => IsValue(back, self.ty)

C2_Witness ==
    /\ pc = "done" /\ op = "as_f32"
    /\ self.ty = "u128" /\ self.bits = Ones(128)
    /\ result = Inf("f32", FALSE)

\* C5: converting a value to its own type, by the method for that type or
\* by as_, returns the value unchanged.
C5_Identity == Converted /\ T = self.ty => result = self

C5_Witness ==
    /\ pc = "done" /\ op = "as_"
    /\ self.ty = "f64" /\ T = "f64" /\ self.cls = "fin" /\ Len(self.man) = 53
    /\ result = self

\* C7: a NaN of f32 or f64 converts to 0 of every integer type, by the
\* methods and by as_.
C7_NaNIsZero ==
    Converted /\ self.ty \in FloatTypes /\ self.cls = "nan" /\ IsInt(T) =>
        result = [ty |-> T, bits |-> Zeros(Width(T))]

C7_Witness ==
    /\ pc = "done" /\ op = "as_"
    /\ self = NaN("f32") /\ T = "i128"
    /\ result = [ty |-> "i128", bits |-> Zeros(128)]

\* signed numbers [neg, mag]: the sum of u and v
SAdd(u, v) ==
    IF u.neg = v.neg THEN [neg |-> u.neg, mag |-> NAdd(u.mag, v.mag)]
    ELSE IF u.mag = v.mag THEN [neg |-> FALSE, mag |-> <<>>]
    ELSE IF NLess(v.mag, u.mag) THEN [neg |-> u.neg, mag |-> NSub(u.mag, v.mag)]
    ELSE [neg |-> v.neg, mag |-> NSub(v.mag, u.mag)]

\* u and v differ by a multiple of 2^w
Congruent(u, v, w) ==
    LET Residue(x) == IF x.neg THEN Neg2c(Pad(x.mag, w)) ELSE Pad(x.mag, w)
    IN  Residue(u) = Residue(v)

\* the natural number written with the decimal digits ds
RECURSIVE Decimal(_)
Decimal(ds) ==
    IF Len(ds) = 0 THEN <<>>
    ELSE LET n == Decimal(SubSeq(ds, 1, Len(ds) - 1))
         IN  NAdd(NAdd(NShl(n, 3), NShl(n, 1)), NFromInt(ds[Len(ds)]))

Num(n) == [neg |-> FALSE, mag |-> NFromInt(n)]

\* the integer v lies between T::MIN and T::MAX (for a float type: between
\* the largest finite values)
InRange(v, ty) ==
    IF IsInt(ty)
    THEN NLeq(v.mag, IF v.neg THEN MinMag(ty) ELSE MaxMag(ty))
    ELSE NLeq(v.mag, NShl(Ones(Prec(ty)), EMax(ty) - Prec(ty) + 1))

\* what holds of every integer to integer conversion of self to T with
\* result r: the result is the value of T congruent to self modulo 2^w, a
\* narrower target keeps the low w bits and a target of the same width all
\* bits; 300 gives 44 as u8 and -1 of i32 gives 4294967295 as u32
Modular(v, r) ==
    LET ws == Width(self.ty)
        wt == Width(T)
    IN  /\ IsValue(result, T)
        /\ Congruent(v, r, wt)
        /\ wt < ws => result.bits = SubSeq(self.bits, 1, wt)
        /\ wt = ws => result.bits = self.bits
        /\ v = Num(300) /\ T = "u8" => r = Num(44)
        /\ self.ty = "i32" /\ v = [neg |-> TRUE, mag |-> <<1>>] /\ T = "u32" =>
              r = [neg |-> FALSE, mag |-> Decimal(<<4, 2, 9, 4, 9, 6, 7, 2, 9, 5>>)]

\* C3 as stated: an integer converted to an integer type of width w is the
\* value of that type congruent to it modulo 2^w: a narrower target keeps
\* the low w bits (300 gives 44 as u8), a wider target keeps the numeric
\* value, a target of the same width keeps the bits (-1 of i32 gives
\* 4294967295 as u32).
C3_WideningKeepsValue ==
    Converted /\ IsInt(self.ty) /\ IsInt(T) =>
        LET v == IntVal(self)
            r == IntVal(result)
        IN  /\ Modular(v, r)
            /\ Width(T) > Width(self.ty) => r = v

\* C3: an integer converted to an integer type of width w is the value of
\* that type congruent to it modulo 2^w: a narrower target keeps the low w
\* bits (300 gives 44 as u8); a wider target extends with the sign bit of a
\* signed source and with zeros for an unsigned one, which keeps the numeric
\* value when it is in the range of the target and gives v + 2^w for a
\* negative v and an unsigned target; a target of the same width keeps the
\* bits (-1 of i32 gives 4294967295 as u32).
C3_IntToIntModular ==
    Converted /\ IsInt(self.ty) /\ IsInt(T) =>
        LET v == IntVal(self)
            r == IntVal(result)
            ws == Width(self.ty)
            wt == Width(T)
        IN  /\ Modular(v, r)
            /\ wt > ws =>
                  /\ \A i \in 1..ws : result.bits[i] = self.bits[i]
                  /\ \A i \in (ws + 1)..wt :
                        result.bits[i] =
                            IF IsSigned(self.ty) THEN self.bits[ws] ELSE 0
                  /\ InRange(v, T) => r = v
                  /\ ~InRange(v, T) =>
                        /\ v.neg /\ ~IsSigned(T) /\ ~r.neg
                        /\ NAdd(r.mag, v.mag) = NPow2(wt)

C3_Witness ==
    /\ pc = "done" /\ op = "as_u16"
    /\ self.ty = "i8" /\ self.bits = Ones(8)
    /\ result.bits = Ones(16)

\* the integer v is a value of ty (for a float type: its significant bits
\* fit the significand)
Representable(v, ty) ==
    /\ InRange(v, ty)
    /\ ~IsInt(ty) /\ Len(v.mag) > 0 => Len(v.mag) - NLowZeros(v.mag) <= Prec(ty)

\* C4 as stated: an integer that lies within the range of T, converted to T
\* and back to its own type, is reproduced.
C4_RoundTripInRange ==
    pc = "back" /\ IsInt(self.ty) /\ InRange(IntVal(self), T) => back = self

\* C4: an integer that T represents exactly (within the range of an integer
\* type T; of no more significant bits than the significand of a float type
\* T), converted to T and back to its own type, is reproduced.
C4_RoundTripExact ==
    pc = "back" /\ IsInt(self.ty) /\ Representable(IntVal(self), T) =>
        back = self

C4_Witness ==
    /\ pc = "back" /\ op = "as_"
    /\ self.ty = "i64" /\ T = "f32"
    /\ IntVal(self) = [neg |-> TRUE, mag |-> NPow2(24)]
    /\ result = Fin("f32", TRUE, <<1>>, 24)
    /\ back = self

\* the natural number n is at most |x|, x a finite float
LeqAbs(n, x) ==
    IF x.exp >= 0 THEN NLeq(n, NShl(x.man, x.exp))
    ELSE NLeq(NShl(n, -x.exp), x.man)

\* C6: a float converted to an integer type is truncated toward zero, and is
\* T::MAX when that is above T::MAX and T::MIN when it is below T::MIN; the
\* largest f64 gives 255 as u8 and the most negative f64 gives 0.
C6_FloatToIntSaturates ==
    Converted /\ self.ty \in FloatTypes /\ self.cls # "nan" /\ IsInt(T) =>
        LET r == IntVal(result)
            lim == IF self.neg THEN MinMag(T) ELSE MaxMag(T)
            above == /\ self.cls = "fin" => LeqAbs(NAdd(lim, <<1>>), self)
                     /\ self.cls # "zero"
        IN  /\ IsValue(result, T)
            /\ above => r.mag = lim /\ (r.neg = self.neg \/ Len(lim) = 0)
            /\ ~above /\ self.cls = "zero" => Len(r.mag) = 0
            /\ ~above /\ self.cls = "fin" =>
                  /\ LeqAbs(r.mag, self)
                  /\ ~LeqAbs(NAdd(r.mag, <<1>>), self)
                  /\ r.neg = self.neg \/ Len(r.mag) = 0
            /\ self = Fin("f64", FALSE, Ones(53), 971) /\ T = "u8" =>
                  r = Num(255)
            /\ self = Fin("f64", TRUE, Ones(53), 971) /\ T = "u8" =>
                  r = Num(0)

C6_Witness ==
    /\ pc = "done" /\ op = "as_u8"
    /\ self = Fin("f64", FALSE, Ones(53), 971)
    /\ IntVal(result) = Num(255)

\* C8: as_ to a float type of an integer that the float type represents
\* exactly gives the float equal to it; 1 of i128 gives 1.0 as f32 and 1 of
\* u8 gives 1.0 as f64.
C8_IntToFloatExact ==
    Converted /\ op = "as_" /\ IsInt(self.ty) /\ T \in FloatTypes
        /\ Representable(IntVal(self), T) =>
        LET v == IntVal(self)
        IN  /\ IsValue(result, T)
            /\ Len(v.mag) = 0 => result.cls = "zero"
            /\ Len(v.mag) > 0 =>
                  /\ result.cls = "fin" /\ result.neg = v.neg
                  /\ result.exp >= 0
                  /\ NShl(result.man, result.exp) = v.mag
            /\ v = Num(1) /\ self.ty = "i128" /\ T = "f32" =>
                  result = Fin("f32", FALSE, <<1>>, 0)
            /\ v = Num(1) /\ self.ty = "u8" /\ T = "f64" =>
                  result = Fin("f64", FALSE, <<1>>, 0)

C8_Witness ==
    /\ pc = "done" /\ op = "as_"
    /\ self.ty = "i128" /\ IntVal(self) = Num(1) /\ T = "f32"
    /\ result = Fin("f32", FALSE, <<1>>, 0)

\* the sum of the first i elements of the slice, as a signed number
RECURSIVE PartialSum(_, _)
PartialSum(elems, i) ==
    IF i = 0 THEN Num(0) ELSE SAdd(PartialSum(elems, i - 1), IntVal(elems[i]))

\* the mean of a nonempty slice of integers, truncated toward zero
ExactMean(elems) ==
    LET sum == PartialSum(elems, Len(elems))
        q == NDivMod(sum.mag, NFromInt(Len(elems))).q
    IN  [neg |-> sum.neg /\ Len(q) > 0, mag |-> q]

\* v, saturated to the range of the integer type ty
Saturated(v, ty) ==
    LET lim == IF v.neg THEN MinMag(ty) ELSE MaxMag(ty)
    IN  IF NLess(lim, v.mag) THEN [neg |-> v.neg /\ Len(lim) > 0, mag |-> lim]
        ELSE v

OneTwoThree ==
    /\ data # Nil /\ data.P = "i32" /\ Len(data.elems) = 3
    /\ \A i \in 1..3 : IntVal(data.elems[i]) = Num(i)

SumsExact(elems) ==
    \A i \in 1..Len(elems) :
        /\ NLeq(IntVal(elems[i]).mag, NPow2(53))
        /\ NLeq(PartialSum(elems, i).mag, NPow2(53))

Targets == {Methods[m] : m \in DOMAIN Methods}

\* one method per target type, named for it; the implementing types are the
\* target types, the integers of width 8, 16, 32, 64, 128 and pointer size
\* of either signedness and the two floats
Matrix ==
    /\ \A m, n \in DOMAIN Methods : Methods[m] = Methods[n] => m = n
    /\ \A m \in DOMAIN Methods : m = MethodNamed(Methods[m])
    /\ Targets = IntTypes \cup FloatTypes
    /\ Implementors = Targets
    /\ Len(ImplTable) = Cardinality(Implementors)
    /\ pc = "ready" /\ self # Nil => self.ty \in Implementors
    /\ Converted => T \in Targets /\ result.ty = T

\* C10 as stated: one conversion method per target type, 13 target types,
\* and the implementing types are the target types.
C10_ThirteenTargets == Matrix /\ Cardinality(Targets) = 13

\* C10: one conversion method per target type, 14 target types (six
\* unsigned, six signed, two floats), and the implementing types are the
\* target types, so that every value of each converts to every other.
C10_FourteenTargets ==
    /\ Matrix
    /\ Cardinality(Targets) = 14
    /\ Cardinality(UnsignedTypes) = 6 /\ Cardinality(SignedTypes) = 6
    /\ Cardinality(FloatTypes) = 2

C10_Witness ==
    /\ pc = "done" /\ op = "as_isize"
    /\ self.ty = "u128" /\ T = "isize"
    /\ result.ty = "isize"

====
